---- MODULE Spec2Model ----
(***************************************************************************)
(* A model of the Follower plugin (src/index.tsx): the persisted whitelist *)
(* of followed user ids, the notification gate, the message body rule and  *)
(* the flux event handlers.                                                *)
(*                                                                         *)
(* A JavaScript string is a sequence of one-character strings, so that     *)
(* split, trim, join, length and substring are computed as the code        *)
(* computes them.                                                          *)
(***************************************************************************)
EXTENDS Integers, Sequences, FiniteSets, TLC

VARIABLES
    store,           \* settings.store: the persisted plugin settings
    oldUsers,        \* oldUsers: user id -> cached profile snapshot
    loggedMessages,  \* loggedMessages: message id -> logged message
    currentChannel,  \* host: getCurrentChannel()?.id (Undefined when none is focused)
    userStore,       \* host: the ids UserStore.getUser knows
    pendingDeletes,  \* MESSAGE_DELETE invocations suspended on the awaited import
    pendingFetches,  \* followUser invocations suspended on the awaited RestAPI.get
    startTask,       \* start(): where it is suspended, and the ids it has yet to fetch
    menu,            \* host: the user-context menu on screen and its children list
    lastCall,        \* the operation that ran in the last step, with its inputs
    emitted,         \* the notifications the last step handed to showNotification
    thrown           \* TRUE iff the last step ended in an uncaught exception

vars == <<store, oldUsers, loggedMessages, currentChannel, userStore,
          pendingDeletes, pendingFetches, startTask, menu, lastCall, emitted, thrown>>

hostVars == <<currentChannel, userStore, menu>>
cacheVars == <<oldUsers, loggedMessages>>
taskVars == <<pendingDeletes, pendingFetches, startTask>>

(***************************************************************************)
(* Bounds of the model.                                                    *)
(***************************************************************************)
MaxFormLen == 3      \* longest text typed into the whitelistedIds field
MaxIdLen == 2        \* longest id string passed to add/remove directly
MaxStoredLen == 4    \* longest persisted whitelist string that is grown further

(***************************************************************************)
(* JavaScript values.                                                      *)
(***************************************************************************)
Undefined == <<"undefined">>    \* the value undefined (no string contains it)
EmptyString == <<>>

WhitelistChars == {"a", ",", " "}

RECURSIVE StringsUpTo(_, _)
StringsUpTo(chars, n) ==
    IF n = 0 THEN {EmptyString}
    ELSE LET shorter == StringsUpTo(chars, n - 1)
         IN  shorter \cup {Append(s, c) : s \in shorter, c \in chars}

(***************************************************************************)
(* String and array primitives used by the whitelist functions.            *)
(***************************************************************************)
\* String.prototype.split(sep) for a one-character separator
RECURSIVE split(_, _)
split(s, sep) ==
    IF \E i \in 1..Len(s) : s[i] = sep
    THEN LET i == CHOOSE k \in 1..Len(s) :
                      s[k] = sep /\ \A j \in 1..(k - 1) : s[j] # sep
         IN  <<SubSeq(s, 1, i - 1)>> \o split(SubSeq(s, i + 1, Len(s)), sep)
    ELSE <<s>>

\* String.prototype.trim()
RECURSIVE trim(_)
trim(s) ==
    IF s # EmptyString /\ Head(s) = " " THEN trim(Tail(s))
    ELSE IF s # EmptyString /\ s[Len(s)] = " " THEN trim(SubSeq(s, 1, Len(s) - 1))
    ELSE s

\* Array.prototype.join(sep)
RECURSIVE join(_, _)
join(items, sep) ==
    IF items = <<>> THEN EmptyString
    ELSE IF Len(items) = 1 THEN items[1]
    ELSE items[1] \o <<sep>> \o join(Tail(items), sep)

\* Array.prototype.includes(x)
includes(items, x) == \E i \in 1..Len(items) : items[i] = x

\* Array.prototype.indexOf(x), 1-based; 0 stands for the code's -1
indexOf(items, x) ==
    IF includes(items, x)
    THEN CHOOSE i \in 1..Len(items) : items[i] = x /\ \A j \in 1..(i - 1) : items[j] # x
    ELSE 0

\* Array.prototype.splice(index, 2)
spliceTwo(items, index) ==
    SubSeq(items, 1, index - 1) \o SubSeq(items, index + 2, Len(items))

\* Array.prototype.splice(index, 1)
splice(items, index) ==
    SubSeq(items, 1, index - 1) \o SubSeq(items, index + 1, Len(items))

\* whitelistedIds ? whitelistedIds.split(",").map(trim).filter(item !== "") : []
parseWhitelist(ids) ==
    IF ids = EmptyString THEN <<>>
    ELSE LET parts == split(ids, ",")
             trimmed == [i \in 1..Len(parts) |-> trim(parts[i])]
         IN  SelectSeq(trimmed, LAMBDA item : item # EmptyString)

(***************************************************************************)
(* The whitelist store: the three functions over the persisted string.     *)
(***************************************************************************)
\* isInWhitelist(id), reading the persisted string ids
isInWhitelist(ids, id) == includes(parseWhitelist(ids), id)

\* addToWhitelist with the includes test inverted
addToWhitelistInverted(ids, id) ==
    LET items == parseWhitelist(ids)
    IN  IF includes(items, id) THEN join(Append(items, id), ",") ELSE ids

\* addToWhitelist writing the joined list back in both branches
addToWhitelistRejoins(ids, id) ==
    LET items == parseWhitelist(ids)
    IN  IF ~includes(items, id) THEN join(Append(items, id), ",") ELSE join(items, ",")

\* the persisted string after addToWhitelist(id) ran on the persisted string ids
addToWhitelist(ids, id) ==
    LET items == parseWhitelist(ids)
    IN  IF ~includes(items, id) THEN join(Append(items, id), ",") ELSE ids

\* the persisted string after removeFromWhitelist(id) ran on ids
removeFromWhitelist(ids, id) ==
    LET items == parseWhitelist(ids)
        index == indexOf(items, id)
    IN  IF index # 0 THEN join(splice(items, index), ",") ELSE ids

(***************************************************************************)
(* Host identifiers.                                                       *)
(***************************************************************************)
UserA == <<"a">>
UserB == <<"b">>
UserIds == {UserA, UserB}
ChannelC == <<"c">>
ChannelD == <<"d">>
GuildG == <<"g">>
MessageM == <<"m">>

\* a value the code's !x test rejects: undefined or the empty string
Falsy(x) == x = Undefined \/ x = EmptyString

(***************************************************************************)
(* JavaScript values of the payload normalizer: a scalar, an array, or an  *)
(* object holding its entries <<key, value>> in insertion order.           *)
(***************************************************************************)
Scalar(v) == [t |-> "scalar", v |-> v]
Array(items) == [t |-> "array", items |-> items]
Object(entries) == [t |-> "object", entries |-> entries]
UndefinedValue == Scalar(Undefined)

\* Object.keys(obj)
Keys(obj) == [i \in 1..Len(obj.entries) |-> obj.entries[i][1]]

\* obj[key]
Get(obj, key) ==
    IF \E i \in 1..Len(obj.entries) : obj.entries[i][1] = key
    THEN obj.entries[CHOOSE i \in 1..Len(obj.entries) : obj.entries[i][1] = key][2]
    ELSE UndefinedValue

\* { ...obj, [key]: value }
Put(entries, key, value) ==
    IF \E i \in 1..Len(entries) : entries[i][1] = key
    THEN [i \in 1..Len(entries) |->
             IF entries[i][1] = key THEN <<key, value>> ELSE entries[i]]
    ELSE Append(entries, <<key, value>>)

LowerCase == <<"a", "b", "c", "d", "e", "f", "g", "h", "i", "j", "k", "l", "m",
               "n", "o", "p", "q", "r", "s", "t", "u", "v", "w", "x", "y", "z">>
UpperCase == <<"A", "B", "C", "D", "E", "F", "G", "H", "I", "J", "K", "L", "M",
               "N", "O", "P", "Q", "R", "S", "T", "U", "V", "W", "X", "Y", "Z">>
IsLetter(c) == \E i \in 1..26 : LowerCase[i] = c \/ UpperCase[i] = c
\* char.toUpperCase()
toUpperCase(c) ==
    IF \E i \in 1..26 : LowerCase[i] = c
    THEN UpperCase[CHOOSE i \in 1..26 : LowerCase[i] = c]
    ELSE c

\* key.replace(/_([a-z])/gi, (_, char) => char.toUpperCase())
RECURSIVE camelCaseKey(_)
camelCaseKey(key) ==
    IF key = <<>> THEN <<>>
    ELSE IF Head(key) = "_" /\ Len(key) >= 2 /\ IsLetter(key[2])
    THEN <<toUpperCase(key[2])>> \o camelCaseKey(SubSeq(key, 3, Len(key)))
    ELSE <<Head(key)>> \o camelCaseKey(Tail(key))

\* convertSnakeCaseToCamelCase renaming the keys of the outermost object only
convertSnakeCaseToCamelCaseShallow(obj) ==
    IF obj.t # "object" THEN obj
    ELSE Object([i \in 1..Len(obj.entries) |->
                    <<camelCaseKey(obj.entries[i][1]), obj.entries[i][2]>>])

RECURSIVE convertSnakeCaseToCamelCase(_)
RECURSIVE convertEntries(_, _)
\* the reduce over Object.keys(obj), newObj being the accumulator
convertEntries(entries, newObj) ==
    IF entries = <<>> THEN newObj
    ELSE convertEntries(Tail(entries),
                        Put(newObj, camelCaseKey(Head(entries)[1]),
                            convertSnakeCaseToCamelCase(Head(entries)[2])))

convertSnakeCaseToCamelCase(obj) ==
    IF obj.t = "scalar" THEN obj
    ELSE IF obj.t = "array"
    THEN Array([i \in 1..Len(obj.items) |-> convertSnakeCaseToCamelCase(obj.items[i])])
    ELSE Object(convertEntries(obj.entries, <<>>))

\* a !== b: scalars by value; an object or array is never identical to a fresh copy
StrictNotEqual(a, b) ==
    IF a.t = "scalar" /\ b.t = "scalar" THEN a.v # b.v ELSE TRUE

(***************************************************************************)
(* Property names of the profile payload.                                  *)
(***************************************************************************)
K_user == <<"u", "s", "e", "r">>
K_id == <<"i", "d">>
K_username == <<"u", "s", "e", "r", "n", "a", "m", "e">>
K_globalName == <<"g", "l", "o", "b", "a", "l", "N", "a", "m", "e">>
K_global_name == <<"g", "l", "o", "b", "a", "l", "_", "n", "a", "m", "e">>
K_avatar == <<"a", "v", "a", "t", "a", "r">>
K_discriminator == <<"d", "i", "s", "c", "r", "i", "m", "i", "n", "a", "t", "o", "r">>
K_clan == <<"c", "l", "a", "n">>
K_flags == <<"f", "l", "a", "g", "s">>
K_banner == <<"b", "a", "n", "n", "e", "r">>
K_banner_color == <<"b", "a", "n", "n", "e", "r", "_", "c", "o", "l", "o", "r">>
K_accent_color == <<"a", "c", "c", "e", "n", "t", "_", "c", "o", "l", "o", "r">>
K_bio == <<"b", "i", "o">>
K_accentColor == <<"a", "c", "c", "e", "n", "t", "C", "o", "l", "o", "r">>
K_nested_obj == <<"n", "e", "s", "t", "e", "d", "_", "o", "b", "j">>
K_nestedObj == <<"n", "e", "s", "t", "e", "d", "O", "b", "j">>

\* the key list of the profile handler's filter
MonitoredKeys == <<K_username, K_globalName, K_avatar, K_discriminator, K_clan,
                   K_flags, K_banner, K_banner_color, K_accent_color, K_bio>>

(***************************************************************************)
(* Notifications.                                                          *)
(***************************************************************************)
\* UserStore.getUser(id): the host's user object, or undefined
getUser(id) ==
    IF id \in userStore
    THEN [known |-> TRUE, id |-> id, username |-> <<"@">> \o id]
    ELSE [known |-> FALSE, id |-> Undefined, username |-> Undefined]

\* author.getAvatarURL(undefined, undefined, false)
getAvatarURL(user) == <<"avatar of ">> \o user.id

\* the argument createNotification passes to Notifications.showNotification
createNotification(title, body, icon) ==
    [title |-> title, body |-> body, icon |-> icon]

(***************************************************************************)
(* The notification gate.                                                  *)
(***************************************************************************)
\* shouldNotify without the whitelist test
shouldNotifyAnyUser(userId, channelId) == currentChannel # channelId

\* shouldNotify letting everything pass while no channel is focused
shouldNotifyUnfocusedPasses(userId, channelId) ==
    /\ isInWhitelist(store.whitelistedIds, userId)
    /\ (currentChannel = Undefined \/ currentChannel # channelId)

shouldNotify(userId, channelId) ==
    isInWhitelist(store.whitelistedIds, userId) /\ currentChannel # channelId

(***************************************************************************)
(* The message body rule.                                                  *)
(***************************************************************************)
\* "Click to jump to the message"
Placeholder == <<"C", "l", "i", "c", "k", " ", "t", "o", " ", "j", "u", "m", "p", " ",
                 "t", "o", " ", "t", "h", "e", " ", "m", "e", "s", "s", "a", "g", "e">>
Ellipsis == <<".", ".", ".">>

\* s.substring(0, n) for 0 <= n
substring(s, n) == SubSeq(s, 1, IF n < Len(s) THEN n ELSE Len(s))

\* getMessageBody clipping one character short
getMessageBodyOffByOne(st, content, filename) ==
    IF ~st.showMessageBody THEN Placeholder
    ELSE LET baseContent == IF ~Falsy(content) THEN content
                            ELSE IF ~Falsy(filename) THEN filename
                            ELSE Placeholder
         IN  IF st.charLimit > 0 /\ Len(baseContent) > st.charLimit
             THEN substring(baseContent, st.charLimit - 1) \o Ellipsis
             ELSE baseContent

\* content: message.content; filename: message.attachments?.[0]?.filename
getMessageBody(st, content, filename) ==
    IF ~st.showMessageBody THEN Placeholder
    ELSE LET baseContent == IF ~Falsy(content) THEN content
                            ELSE IF ~Falsy(filename) THEN filename
                            ELSE Placeholder
         IN  IF st.charLimit > 0 /\ Len(baseContent) > st.charLimit
             THEN substring(baseContent, st.charLimit) \o Ellipsis
             ELSE baseContent

(***************************************************************************)
(* Initial state: the settings defaults and the empty caches.              *)
(***************************************************************************)
DefaultCharLimit == 118

\* start() is not running
NotStarted == [pc |-> "idle", ids |-> <<>>]

\* no user-context menu is on screen
NoMenu == [open |-> FALSE, user |-> Undefined, children |-> <<>>]

NoMessage == [exists |-> FALSE, id |-> Undefined, authorId |-> Undefined,
              channel_id |-> Undefined, content |-> Undefined]

Init ==
    /\ store = [whitelistedIds |-> EmptyString,
                trackProfileChanges |-> FALSE,
                trackStartedTyping |-> TRUE,
                trackSentMessage |-> TRUE,
                showMessageBody |-> TRUE,
                charLimit |-> DefaultCharLimit]
    /\ oldUsers = [u \in UserIds |-> UndefinedValue]
    /\ loggedMessages = [m \in {MessageM} |-> NoMessage]
    /\ currentChannel = Undefined
    /\ userStore = UserIds
    /\ pendingDeletes = {}
    /\ pendingFetches = {}
    /\ startTask = NotStarted
    /\ menu = NoMenu
    /\ lastCall = [op |-> "none"]
    /\ emitted = <<>>
    /\ thrown = FALSE

(***************************************************************************)
(* The settings form.                                                      *)
(***************************************************************************)
FormTexts == StringsUpTo(WhitelistChars, MaxFormLen)
IdStrings == StringsUpTo(WhitelistChars, MaxIdLen)

\* the user types text into the whitelistedIds field
EditWhitelistedIds(text) ==
    /\ store' = [store EXCEPT !.whitelistedIds = text]
    /\ lastCall' = [op |-> "editWhitelistedIds"]
    /\ emitted' = <<>>
    /\ thrown' = FALSE
    /\ UNCHANGED <<hostVars, cacheVars, taskVars>>

\* the user flips one of the boolean settings
SetBoolean(name, value) ==
    /\ store' = [store EXCEPT ![name] = value]
    /\ lastCall' = [op |-> "setBoolean"]
    /\ emitted' = <<>>
    /\ thrown' = FALSE
    /\ UNCHANGED <<hostVars, cacheVars, taskVars>>

\* the user enters a character limit
SetCharLimit(n) ==
    /\ store' = [store EXCEPT !.charLimit = n]
    /\ lastCall' = [op |-> "setCharLimit"]
    /\ emitted' = <<>>
    /\ thrown' = FALSE
    /\ UNCHANGED <<hostVars, cacheVars, taskVars>>

(***************************************************************************)
(* The host changes what it shows and what it knows.                       *)
(***************************************************************************)
\* the user focuses a channel, or leaves every channel
SelectChannel(channelId) ==
    /\ currentChannel' = channelId
    /\ lastCall' = [op |-> "selectChannel"]
    /\ emitted' = <<>>
    /\ thrown' = FALSE
    /\ UNCHANGED <<store, userStore, menu, cacheVars, taskVars>>

\* the host's user store learns or drops users
UserStoreUpdate(known) ==
    /\ userStore' = known
    /\ lastCall' = [op |-> "userStoreUpdate"]
    /\ emitted' = <<>>
    /\ thrown' = FALSE
    /\ UNCHANGED <<store, currentChannel, menu, cacheVars, taskVars>>

(***************************************************************************)
(* flux.MESSAGE_CREATE, MESSAGE_UPDATE, TYPING_START, THREAD_CREATE.       *)
(* A payload names message?.author?.id as authorId and                     *)
(* message.attachments?.[0]?.filename as filename.                         *)
(***************************************************************************)
GuildJoinType == 7

MESSAGE_CREATE(payload) ==
    LET authorId == payload.authorId
        gate == /\ ~Falsy(authorId)
                /\ ~Falsy(payload.channelId)
                /\ store.trackSentMessage
                /\ shouldNotify(authorId, payload.channelId)
        author == getUser(authorId)
    IN  /\ emitted' =
            IF gate /\ author.known
            THEN IF payload.type = GuildJoinType
                 THEN <<createNotification(author.username \o <<" Joined a server">>,
                                           <<"Click to jump to the message.">>,
                                           getAvatarURL(author))>>
                 ELSE <<createNotification(author.username \o <<" Sent a message">>,
                                           getMessageBody(store, payload.content,
                                                          payload.filename),
                                           getAvatarURL(author))>>
            ELSE <<>>
        /\ thrown' = (gate /\ ~author.known)
        /\ lastCall' = [op |-> "MESSAGE_CREATE", payload |-> payload]
        /\ UNCHANGED <<store, hostVars, cacheVars, taskVars>>

MESSAGE_UPDATE(payload) ==
    LET authorId == payload.authorId
        gate == /\ ~Falsy(authorId)
                /\ ~Falsy(payload.channelId)
                /\ shouldNotify(authorId, payload.channelId)
        author == getUser(authorId)
    IN  /\ emitted' =
            IF gate /\ author.known
            THEN <<createNotification(author.username \o <<" Edited a message">>,
                                      getMessageBody(store, payload.content,
                                                     payload.filename),
                                      getAvatarURL(author))>>
            ELSE <<>>
        /\ thrown' = (gate /\ ~author.known)
        /\ lastCall' = [op |-> "MESSAGE_UPDATE", payload |-> payload]
        /\ UNCHANGED <<store, hostVars, cacheVars, taskVars>>

\* TYPING_START without the trackStartedTyping test
TYPING_START_Untracked(payload) ==
    LET gate == /\ ~Falsy(payload.channelId)
                /\ ~Falsy(payload.userId)
                /\ shouldNotify(payload.userId, payload.channelId)
        author == getUser(payload.userId)
    IN  /\ emitted' =
            IF gate /\ author.known
            THEN <<createNotification(author.username \o <<" Started typing...">>,
                                      <<"Click to jump to the channel.">>,
                                      getAvatarURL(author))>>
            ELSE <<>>
        /\ thrown' = (gate /\ ~author.known)
        /\ lastCall' = [op |-> "TYPING_START", payload |-> payload]
        /\ UNCHANGED <<store, hostVars, cacheVars, taskVars>>

TYPING_START(payload) ==
    LET gate == /\ ~Falsy(payload.channelId)
                /\ ~Falsy(payload.userId)
                /\ store.trackStartedTyping
                /\ shouldNotify(payload.userId, payload.channelId)
        author == getUser(payload.userId)
    IN  /\ emitted' =
            IF gate /\ author.known
            THEN <<createNotification(author.username \o <<" Started typing...">>,
                                      <<"Click to jump to the channel.">>,
                                      getAvatarURL(author))>>
            ELSE <<>>
        /\ thrown' = (gate /\ ~author.known)
        /\ lastCall' = [op |-> "TYPING_START", payload |-> payload]
        /\ UNCHANGED <<store, hostVars, cacheVars, taskVars>>

\* a payload names channel?.id as channelId and channel.ownerId as ownerId
THREAD_CREATE(payload) ==
    LET gate == /\ ~Falsy(payload.channelId)
                /\ ~Falsy(payload.ownerId)
                /\ isInWhitelist(store.whitelistedIds, payload.ownerId)
                /\ payload.isNewlyCreated
        owner == getUser(payload.ownerId)
    IN  /\ emitted' =
            IF gate /\ owner.known
            THEN <<createNotification(<<"New thread created by ">> \o owner.username,
                                      <<"Click to view the thread.">>,
                                      getAvatarURL(owner))>>
            ELSE <<>>
        /\ thrown' = (gate /\ ~owner.known)
        /\ lastCall' = [op |-> "THREAD_CREATE", payload |-> payload]
        /\ UNCHANGED <<store, hostVars, cacheVars, taskVars>>

(***************************************************************************)
(* flux.MESSAGE_DELETE: up to the awaited import, and from it on.          *)
(* stored is what MessageStore.getMessage(channelId, id) returns.          *)
(***************************************************************************)
DeleteBodyLimit == 100

\* the handler from the resolved message on (lines 334-349)
DeleteNotifications(message) ==
    LET authorId == message.authorId
        author == getUser(authorId)
    IN  IF ~shouldNotify(authorId, message.channel_id) THEN <<>>
        ELSE IF ~author.known \/ message.content = Undefined THEN <<>>
        ELSE <<createNotification(
                   author.username \o <<" Deleted a message!">>,
                   <<"\"">> \o (IF Len(message.content) > DeleteBodyLimit
                                THEN substring(message.content, DeleteBodyLimit) \o Ellipsis
                                ELSE message.content) \o <<"\"">>,
                   getAvatarURL(author))>>

DeleteThrows(message) ==
    /\ shouldNotify(message.authorId, message.channel_id)
    /\ (~getUser(message.authorId).known \/ message.content = Undefined)

\* MessageStore.getMessage(channelId, id) || loggedMessages[id]
LookupMessage(stored, logged, id) ==
    IF stored.exists THEN stored
    ELSE IF id \in DOMAIN logged THEN logged[id] ELSE NoMessage

MESSAGE_DELETE(payload, stored) ==
    LET complete == ~Falsy(payload.id) /\ ~Falsy(payload.channelId) /\ ~Falsy(payload.guildId)
        message == LookupMessage(stored, loggedMessages, payload.id)
    IN  /\ lastCall' = [op |-> "MESSAGE_DELETE", payload |-> payload, stored |-> stored,
                        imports |-> IF complete /\ ~message.exists THEN 1 ELSE 0]
        /\ UNCHANGED <<store, hostVars, cacheVars, pendingFetches, startTask>>
        /\ IF ~complete
           THEN emitted' = <<>> /\ thrown' = FALSE /\ UNCHANGED pendingDeletes
           ELSE IF message.exists
           THEN /\ emitted' = DeleteNotifications(message)
                /\ thrown' = DeleteThrows(message)
                /\ UNCHANGED pendingDeletes
           ELSE /\ emitted' = <<>>
                /\ thrown' = FALSE
                /\ pendingDeletes' = pendingDeletes \cup {payload}

\* imported is what importLoggedMessages() resolved to; Null stands for null
MESSAGE_DELETE_Resume(payload, imported, stored) ==
    LET logged == IF imported.isNull THEN [m \in {MessageM} |-> NoMessage]
                  ELSE imported.map
        message == LookupMessage(stored, logged, payload.id)
    IN  /\ payload \in pendingDeletes
        /\ pendingDeletes' = pendingDeletes \ {payload}
        /\ loggedMessages' = logged
        /\ lastCall' = [op |-> "MESSAGE_DELETE_Resume", payload |-> payload,
                        stored |-> stored, imported |-> imported, imports |-> 0]
        /\ emitted' = IF message.exists THEN DeleteNotifications(message) ELSE <<>>
        /\ thrown' = (message.exists /\ DeleteThrows(message))
        /\ UNCHANGED <<store, hostVars, oldUsers, pendingFetches, startTask>>

(***************************************************************************)
(* flux.USER_PROFILE_FETCH_SUCCESS.                                        *)
(***************************************************************************)
\* user?.id of a payload
PayloadUserId(payload) ==
    LET user == Get(payload, K_user)
    IN  IF user.t = "object" /\ Get(user, K_id).t = "scalar"
        THEN Get(user, K_id).v ELSE Undefined

\* the keys of user the filter keeps, oldUserUser being oldUser.user
changedKeys(user, oldUserUser) ==
    SelectSeq(Keys(user),
              LAMBDA key : /\ StrictNotEqual(Get(user, key), Get(oldUserUser, key))
                           /\ includes(MonitoredKeys, key))

USER_PROFILE_FETCH_SUCCESS(payload) ==
    LET user == Get(payload, K_user)
        id == PayloadUserId(payload)
        act == /\ ~Falsy(id)
               /\ isInWhitelist(store.whitelistedIds, id)
               /\ store.trackProfileChanges
        normalizedPayload == convertSnakeCaseToCamelCase(payload)
        hasOld == oldUsers[id].t # "scalar"
        oldUser == convertSnakeCaseToCamelCase(oldUsers[id])
        oldUserUser == Get(oldUser, K_user)
        changed == changedKeys(user, oldUserUser)
        username == Get(user, K_username)
    IN  /\ lastCall' = [op |-> "USER_PROFILE_FETCH_SUCCESS", payload |-> payload,
                        oldUser |-> IF act THEN oldUsers[id] ELSE UndefinedValue]
        /\ UNCHANGED <<store, hostVars, loggedMessages, taskVars>>
        /\ IF ~act
           THEN emitted' = <<>> /\ thrown' = FALSE /\ UNCHANGED oldUsers
           ELSE IF ~hasOld
           THEN /\ oldUsers' = [oldUsers EXCEPT ![id] = normalizedPayload]
                /\ emitted' = <<>>
                /\ thrown' = FALSE
           ELSE IF oldUserUser.t # "object"
           THEN \* oldUser.user[key] on an undefined oldUser.user
                emitted' = <<>> /\ thrown' = TRUE /\ UNCHANGED oldUsers
           ELSE IF changed = <<>>
           THEN emitted' = <<>> /\ thrown' = FALSE /\ UNCHANGED oldUsers
           ELSE IF ~getUser(id).known
           THEN emitted' = <<>> /\ thrown' = TRUE /\ UNCHANGED oldUsers
           ELSE /\ emitted' = <<createNotification(
                                  username.v \o <<" updated their profile!">>,
                                  <<"Updated properties: ">> \o join(changed, ", ")
                                      \o <<".">>,
                                  getAvatarURL(getUser(id)))>>
                /\ thrown' = FALSE
                /\ oldUsers' = [oldUsers EXCEPT ![id] = normalizedPayload]

(***************************************************************************)
(* followUser (up to the awaited RestAPI.get, and from it on) and          *)
(* unfollowUser.                                                           *)
(***************************************************************************)
followUser(id) ==
    /\ lastCall' = [op |-> "followUser", id |-> id]
    /\ emitted' = <<>>
    /\ UNCHANGED <<hostVars, cacheVars, pendingDeletes, startTask>>
    /\ IF ~getUser(id).known
       THEN \* user.usernameNormalized on an undefined user
            thrown' = TRUE /\ UNCHANGED <<store, pendingFetches>>
       ELSE /\ thrown' = FALSE
            /\ store' = [store EXCEPT !.whitelistedIds = addToWhitelist(@, id)]
            /\ pendingFetches' = pendingFetches \cup {id}

\* RestAPI.get resolved with body
followUser_Fetched(id, body) ==
    /\ id \in pendingFetches
    /\ pendingFetches' = pendingFetches \ {id}
    /\ oldUsers' = [oldUsers EXCEPT ![id] = convertSnakeCaseToCamelCase(body)]
    /\ lastCall' = [op |-> "followUser_Fetched", id |-> id, body |-> body]
    /\ emitted' = <<>>
    /\ thrown' = FALSE
    /\ UNCHANGED <<store, hostVars, loggedMessages, pendingDeletes, startTask>>

\* RestAPI.get rejected: the catch block logs and the call completes
followUser_FetchFailed(id) ==
    /\ id \in pendingFetches
    /\ pendingFetches' = pendingFetches \ {id}
    /\ lastCall' = [op |-> "followUser_FetchFailed", id |-> id]
    /\ emitted' = <<>>
    /\ thrown' = FALSE
    /\ UNCHANGED <<store, hostVars, cacheVars, pendingDeletes, startTask>>

unfollowUser(id) ==
    /\ lastCall' = [op |-> "unfollowUser", id |-> id]
    /\ emitted' = <<>>
    /\ UNCHANGED <<hostVars, loggedMessages, taskVars>>
    /\ IF ~getUser(id).known
       THEN thrown' = TRUE /\ UNCHANGED <<store, oldUsers>>
       ELSE /\ thrown' = FALSE
            /\ store' = [store EXCEPT !.whitelistedIds = removeFromWhitelist(@, id)]
            /\ oldUsers' = [oldUsers EXCEPT ![id] = UndefinedValue]

(***************************************************************************)
(* The context menu: the host opens a user-context menu and hands its      *)
(* children list to contextMenuPatch, once or several times; the user      *)
(* picks the item.  A child is named by its props?.id.                     *)
(***************************************************************************)
CurrentUser == <<"me">>          \* UserStore.getCurrentUser().id
FollowerItem == <<"follower-v1">>

MenuChild(id, label) == [id |-> id, label |-> label]
MenuSeparator == MenuChild(Undefined, Undefined)

\* children.some(child => child?.props?.id === "follower-v1")
HasFollowerItem(children) == \E i \in 1..Len(children) : children[i].id = FollowerItem

\* the host opens the menu of user with its own children; Undefined: no props
OpenContextMenu(user, children) ==
    /\ menu' = [open |-> TRUE, user |-> user, children |-> children]
    /\ lastCall' = [op |-> "openContextMenu"]
    /\ emitted' = <<>>
    /\ thrown' = FALSE
    /\ UNCHANGED <<store, currentChannel, userStore, cacheVars, taskVars>>

contextMenuPatch ==
    /\ menu.open
    /\ lastCall' = [op |-> "contextMenuPatch"]
    /\ emitted' = <<>>
    /\ thrown' = FALSE
    /\ UNCHANGED <<store, currentChannel, userStore, cacheVars, taskVars>>
    /\ IF menu.user = Undefined \/ menu.user = CurrentUser
       THEN UNCHANGED menu
       ELSE IF ~HasFollowerItem(menu.children)
       THEN menu' = [menu EXCEPT !.children =
                        @ \o <<MenuSeparator,
                               MenuChild(FollowerItem,
                                         IF isInWhitelist(store.whitelistedIds, menu.user)
                                         THEN <<"Stop Following User">>
                                         ELSE <<"Follow User">>)>>]
       ELSE UNCHANGED menu

\* the user picks the item: its action reads the whitelist at that moment
InvokeFollowerItem ==
    /\ HasFollowerItem(menu.children)
    /\ IF isInWhitelist(store.whitelistedIds, menu.user)
       THEN unfollowUser(menu.user)
       ELSE followUser(menu.user)

(***************************************************************************)
(* start(): up to the first await, each awaited RestAPI.get of the loop,   *)
(* and the awaited importLoggedMessages().                                 *)
(***************************************************************************)
TransparentIcon == <<"TRANSPARENT_ICON">>

\* where start() is suspended once the ids in rest are left to fetch
StartPosition(rest) ==
    IF rest = <<>> THEN [pc |-> "import", ids |-> <<>>] ELSE [pc |-> "fetch", ids |-> rest]

\* hasLogger: Vencord.Plugins.plugins.MessageLoggerEnhanced is there
start(hasLogger) ==
    /\ startTask.pc = "idle"
    /\ lastCall' = [op |-> "start", hasLogger |-> hasLogger]
    /\ thrown' = FALSE
    /\ UNCHANGED <<store, hostVars, cacheVars, pendingDeletes, pendingFetches>>
    /\ IF ~hasLogger
       THEN /\ emitted' = <<createNotification(
                               <<"Follower plugin requires MessageLoggerEnhanced to be enabled">>,
                               <<"Click to download it.">>, TransparentIcon)>>
            /\ UNCHANGED startTask
       ELSE /\ emitted' = <<>>
            /\ startTask' = StartPosition(parseWhitelist(store.whitelistedIds))

\* start() with a rejected RestAPI.get ending the call (no try/catch in the loop)
start_FetchFailedAborts ==
    /\ startTask.pc = "fetch"
    /\ startTask' = NotStarted
    /\ lastCall' = [op |-> "start_FetchFailed", id |-> Head(startTask.ids)]
    /\ emitted' = <<>>
    /\ thrown' = TRUE
    /\ UNCHANGED <<store, hostVars, cacheVars, pendingDeletes, pendingFetches>>

\* RestAPI.get for the id at the head of the loop resolved with body
start_Fetched(body) ==
    LET id == Head(startTask.ids)
    IN  /\ startTask.pc = "fetch"
        /\ oldUsers' = [u \in DOMAIN oldUsers \cup {id} |->
                            IF u = id THEN convertSnakeCaseToCamelCase(body) ELSE oldUsers[u]]
        /\ startTask' = StartPosition(Tail(startTask.ids))
        /\ lastCall' = [op |-> "start_Fetched", id |-> id, body |-> body]
        /\ emitted' = <<>>
        /\ thrown' = FALSE
        /\ UNCHANGED <<store, hostVars, loggedMessages, pendingDeletes, pendingFetches>>

\* RestAPI.get for the id at the head of the loop rejected: the catch block logs and
\* the loop goes on
start_FetchFailed ==
    /\ startTask.pc = "fetch"
    /\ startTask' = StartPosition(Tail(startTask.ids))
    /\ lastCall' = [op |-> "start_FetchFailed", id |-> Head(startTask.ids)]
    /\ emitted' = <<>>
    /\ thrown' = FALSE
    /\ UNCHANGED <<store, hostVars, cacheVars, pendingDeletes, pendingFetches>>

\* importLoggedMessages() resolved (it never rejects): start() returns
start_Imported(imported) ==
    /\ startTask.pc = "import"
    /\ loggedMessages' = IF imported.isNull THEN [m \in {MessageM} |-> NoMessage]
                         ELSE imported.map
    /\ startTask' = NotStarted
    /\ lastCall' = [op |-> "start_Imported", imported |-> imported]
    /\ emitted' = <<>>
    /\ thrown' = FALSE
    /\ UNCHANGED <<store, hostVars, oldUsers, pendingDeletes, pendingFetches>>

(***************************************************************************)
(* The whitelist functions called directly.                                *)
(***************************************************************************)
CallAddToWhitelist(id) ==
    /\ Len(store.whitelistedIds) <= MaxStoredLen
    /\ store' = [store EXCEPT !.whitelistedIds = addToWhitelist(@, id)]
    /\ lastCall' = [op |-> "addToWhitelist", id |-> id, before |-> store.whitelistedIds]
    /\ emitted' = <<>>
    /\ thrown' = FALSE
    /\ UNCHANGED <<hostVars, cacheVars, taskVars>>

CallRemoveFromWhitelist(id) ==
    /\ store' = [store EXCEPT !.whitelistedIds = removeFromWhitelist(@, id)]
    /\ lastCall' = [op |-> "removeFromWhitelist", id |-> id, before |-> store.whitelistedIds]
    /\ emitted' = <<>>
    /\ thrown' = FALSE
    /\ UNCHANGED <<hostVars, cacheVars, taskVars>>

CallConvertSnakeCaseToCamelCase(obj) ==
    /\ lastCall' = [op |-> "convertSnakeCaseToCamelCase", obj |-> obj,
                    result |-> convertSnakeCaseToCamelCase(obj)]
    /\ emitted' = <<>>
    /\ thrown' = FALSE
    /\ UNCHANGED <<store, hostVars, cacheVars, taskVars>>

CallGetMessageBody(content, filename) ==
    /\ lastCall' = [op |-> "getMessageBody", content |-> content, filename |-> filename,
                    result |-> getMessageBody(store, content, filename)]
    /\ emitted' = <<>>
    /\ thrown' = FALSE
    /\ UNCHANGED <<store, hostVars, cacheVars, taskVars>>

NextWhitelist ==
    \/ \E text \in FormTexts : EditWhitelistedIds(text)
    \/ \E id \in IdStrings : CallAddToWhitelist(id)
    \/ \E id \in IdStrings : CallRemoveFromWhitelist(id)

SpecWhitelist == Init /\ [][NextWhitelist]_vars

(***************************************************************************)
(* Inputs of the event handlers.                                           *)
(***************************************************************************)
Hi == <<"h", "i">>

MessagePayload(authorId, channelId, type) ==
    [authorId |-> authorId, channelId |-> channelId, guildId |-> GuildG, id |-> MessageM,
     type |-> type, content |-> Hi, filename |-> Undefined]

Message(authorId, channelId, content) ==
    [exists |-> TRUE, id |-> MessageM, authorId |-> authorId,
     channel_id |-> channelId, content |-> content]

\* a profile endpoint body, snake_case as the host delivers it; bannerColor may be absent
Profile(id, username, globalName, bannerColor) ==
    Object(<< <<K_user,
                Object(<< <<K_id, Scalar(id)>>,
                          <<K_username, Scalar(username)>>,
                          <<K_global_name, Scalar(globalName)>> >>
                       \o (IF bannerColor = Undefined THEN <<>>
                           ELSE << <<K_banner_color, Scalar(bannerColor)>> >>))>> >>)

NameX == <<"x">>
NameY == <<"y">>
Red == <<"r">>

(***************************************************************************)
(* Spec: every handler interleaved with followUser, unfollowUser and their *)
(* pending fetches, with the MESSAGE_DELETE import in flight.              *)
(***************************************************************************)
CreatePayloads ==
    {MessagePayload(UserA, ChannelC, 0), MessagePayload(UserA, ChannelD, GuildJoinType),
     MessagePayload(UserB, ChannelC, 0), MessagePayload(Undefined, ChannelC, 0),
     MessagePayload(UserA, Undefined, 0)}

UpdatePayloads ==
    {MessagePayload(UserA, ChannelC, 0), MessagePayload(UserB, ChannelD, 0),
     MessagePayload(Undefined, ChannelC, 0)}

TypingPayloads ==
    {[userId |-> UserA, channelId |-> ChannelC], [userId |-> UserB, channelId |-> ChannelC],
     [userId |-> UserA, channelId |-> Undefined]}

ThreadPayloads ==
    {[channelId |-> ChannelD, ownerId |-> UserA, isNewlyCreated |-> TRUE],
     [channelId |-> ChannelD, ownerId |-> UserA, isNewlyCreated |-> FALSE],
     [channelId |-> ChannelD, ownerId |-> UserB, isNewlyCreated |-> TRUE],
     [channelId |-> ChannelD, ownerId |-> Undefined, isNewlyCreated |-> TRUE]}

ProfilePayloads == {Profile(u, NameX, NameX, Red) : u \in UserIds}

DeletePayloads ==
    {[id |-> MessageM, channelId |-> ChannelC, guildId |-> GuildG],
     [id |-> MessageM, channelId |-> ChannelC, guildId |-> Undefined]}

\* what the live store returns, and what the import resolves to (one logged
\* message has no channel_id)
StoredMessages == {NoMessage, Message(UserB, ChannelC, Hi)}

Imports ==
    {[isNull |-> TRUE, map |-> [m \in {MessageM} |-> NoMessage]]}
    \cup {[isNull |-> FALSE, map |-> [m \in {MessageM} |-> msg]] :
             msg \in {Message(UserA, ChannelC, Hi), Message(UserA, Undefined, Hi)}}

\* a list typed into the settings form that names one user twice
SpecTexts == {UserA \o <<",">> \o UserA}

Next ==
    \/ \E value \in BOOLEAN : SetBoolean("trackProfileChanges", value)
    \/ \E text \in SpecTexts : EditWhitelistedIds(text)
    \/ \E channelId \in {Undefined, ChannelC} : SelectChannel(channelId)
    \/ \E id \in UserIds : followUser(id)
    \/ \E id \in UserIds, body \in ProfilePayloads :
           PayloadUserId(body) = id /\ followUser_Fetched(id, body)
    \/ \E id \in UserIds : followUser_FetchFailed(id)
    \/ \E id \in UserIds : unfollowUser(id)
    \/ \E payload \in CreatePayloads : MESSAGE_CREATE(payload)
    \/ \E payload \in UpdatePayloads : MESSAGE_UPDATE(payload)
    \/ \E payload \in TypingPayloads : TYPING_START(payload)
    \/ \E payload \in ThreadPayloads : THREAD_CREATE(payload)
    \/ \E payload \in ProfilePayloads : USER_PROFILE_FETCH_SUCCESS(payload)
    \/ \E payload \in DeletePayloads, stored \in StoredMessages :
           MESSAGE_DELETE(payload, stored)
    \/ \E payload \in DeletePayloads, imported \in Imports, stored \in StoredMessages :
           MESSAGE_DELETE_Resume(payload, imported, stored)

Spec == Init /\ [][Next]_vars

(***************************************************************************)
(* SpecHandlers: the synchronous handlers and the profile handler on every *)
(* shape of payload, under every tracking setting, whitelist text, focused *)
(* channel and host user store.                                            *)
(***************************************************************************)
TrackSettings == {"trackProfileChanges", "trackStartedTyping", "trackSentMessage"}

HandlerTexts == {EmptyString, UserA, UserA \o <<",">> \o UserB}

AnyMessagePayloads ==
    {MessagePayload(authorId, channelId, type) :
        authorId \in UserIds \cup {Undefined},
        channelId \in {ChannelC, ChannelD, Undefined},
        type \in {0, GuildJoinType}}

AnyTypingPayloads ==
    [userId : UserIds \cup {Undefined}, channelId : {ChannelC, ChannelD, Undefined}]

HandlerProfilePayloads == {Profile(UserA, NameX, NameX, Red), Profile(UserA, NameY, NameX, Red)}

AnyThreadPayloads ==
    [channelId : {ChannelC, Undefined}, ownerId : UserIds \cup {Undefined},
     isNewlyCreated : BOOLEAN]

NextHandlers ==
    \/ \E name \in TrackSettings, value \in BOOLEAN : SetBoolean(name, value)
    \/ \E text \in HandlerTexts : EditWhitelistedIds(text)
    \/ \E channelId \in {Undefined, ChannelC} : SelectChannel(channelId)
    \/ \E known \in {UserIds, {UserB}} : UserStoreUpdate(known)
    \/ \E payload \in AnyMessagePayloads : MESSAGE_CREATE(payload)
    \/ \E payload \in AnyMessagePayloads : MESSAGE_UPDATE(payload)
    \/ \E payload \in AnyTypingPayloads : TYPING_START(payload)
    \/ \E payload \in HandlerProfilePayloads : USER_PROFILE_FETCH_SUCCESS(payload)
    \/ \E payload \in AnyThreadPayloads : THREAD_CREATE(payload)

SpecHandlers == Init /\ [][NextHandlers]_vars

(***************************************************************************)
(* SpecBody: getMessageBody on every content, filename and limit.          *)
(***************************************************************************)
MaxContentLen == 3
MaxCharLimit == 3

Contents == StringsUpTo({"x", " "}, MaxContentLen) \cup {Undefined}
Filenames == {Undefined, EmptyString, <<"f", ".", "p", "n", "g">>}
CharLimits == (-1..MaxCharLimit) \cup {DefaultCharLimit}

NextBody ==
    \/ \E value \in BOOLEAN : SetBoolean("showMessageBody", value)
    \/ \E n \in CharLimits : SetCharLimit(n)
    \/ \E content \in Contents, filename \in Filenames :
           CallGetMessageBody(content, filename)

SpecBody == Init /\ [][NextBody]_vars

(***************************************************************************)
(* SpecProfile: the profile handler on profiles that differ field by       *)
(* field, with followUser, its fetch and unfollowUser.                     *)
(***************************************************************************)
AnyProfiles ==
    {Profile(u, NameX, NameX, Undefined) : u \in UserIds}
    \cup {Profile(u, NameY, NameX, Undefined) : u \in UserIds}
    \cup {Profile(u, NameX, NameY, Undefined) : u \in UserIds}
    \cup {Profile(u, NameX, NameX, Red) : u \in UserIds}

NextProfile ==
    \/ \E value \in BOOLEAN : SetBoolean("trackProfileChanges", value)
    \/ \E id \in UserIds : followUser(id)
    \/ \E id \in UserIds, body \in AnyProfiles :
           PayloadUserId(body) = id /\ followUser_Fetched(id, body)
    \/ \E id \in UserIds : followUser_FetchFailed(id)
    \/ \E id \in UserIds : unfollowUser(id)
    \/ \E payload \in AnyProfiles : USER_PROFILE_FETCH_SUCCESS(payload)

SpecProfile == Init /\ [][NextProfile]_vars

(***************************************************************************)
(* SpecMessages: the three message handlers with the MESSAGE_DELETE import *)
(* in flight, on messages with and without author, content and channel,    *)
(* under every body setting, whitelist text, focused channel and user      *)
(* store.                                                                  *)
(***************************************************************************)
Photo == <<"i", "m", "g">>

\* a content one character longer than the MESSAGE_DELETE clip
LongContent == [i \in 1..(DeleteBodyLimit + 1) |-> "x"]

BodyPayloads ==
    {MessagePayload(UserA, ChannelD, 0),
     MessagePayload(UserA, ChannelD, GuildJoinType),
     [MessagePayload(UserA, ChannelD, 0) EXCEPT !.content = EmptyString,
                                                !.filename = Photo]}

CompleteDelete == [id |-> MessageM, channelId |-> ChannelC, guildId |-> GuildG]

LoggedMessages ==
    {Message(UserA, ChannelD, Hi), Message(UserA, ChannelD, LongContent),
     Message(UserA, ChannelD, Undefined), Message(Undefined, ChannelD, Hi)}

MessageImports ==
    {[isNull |-> TRUE, map |-> [m \in {MessageM} |-> NoMessage]]}
    \cup {[isNull |-> FALSE, map |-> [m \in {MessageM} |-> msg]] : msg \in LoggedMessages}

NextMessages ==
    \/ \E value \in BOOLEAN : SetBoolean("showMessageBody", value)
    \/ SetCharLimit(1)
    \/ \E text \in HandlerTexts : EditWhitelistedIds(text)
    \/ \E channelId \in {Undefined, ChannelC} : SelectChannel(channelId)
    \/ \E known \in {UserIds, {UserB}} : UserStoreUpdate(known)
    \/ \E payload \in BodyPayloads : MESSAGE_CREATE(payload)
    \/ \E payload \in BodyPayloads : MESSAGE_UPDATE(payload)
    \/ \E payload \in DeletePayloads, stored \in StoredMessages :
           MESSAGE_DELETE(payload, stored)
    \/ \E imported \in MessageImports, stored \in StoredMessages :
           MESSAGE_DELETE_Resume(CompleteDelete, imported, stored)

SpecMessages == Init /\ [][NextMessages]_vars

(***************************************************************************)
(* SpecFollow: start(), followUser and unfollowUser with their fetches in  *)
(* flight, interleaved with profile events.                                *)
(***************************************************************************)
FollowBodies == {Profile(u, NameX, NameX, Red) : u \in UserIds}

FollowEvents == {Profile(UserA, NameY, NameX, Red)}

StartImports ==
    {[isNull |-> TRUE, map |-> [m \in {MessageM} |-> NoMessage]],
     [isNull |-> FALSE, map |-> [m \in {MessageM} |-> Message(UserA, ChannelC, Hi)]]}

NextFollow ==
    \/ SetBoolean("trackProfileChanges", TRUE)
    \/ \E id \in UserIds : followUser(id)
    \/ \E id \in UserIds, body \in FollowBodies :
           PayloadUserId(body) = id /\ followUser_Fetched(id, body)
    \/ \E id \in UserIds : followUser_FetchFailed(id)
    \/ \E id \in UserIds : unfollowUser(id)
    \/ \E payload \in FollowEvents : USER_PROFILE_FETCH_SUCCESS(payload)
    \/ \E hasLogger \in BOOLEAN : start(hasLogger)
    \/ \E body \in FollowBodies :
           /\ startTask.pc = "fetch"
           /\ PayloadUserId(body) = Head(startTask.ids)
           /\ start_Fetched(body)
    \/ start_FetchFailed
    \/ \E imported \in StartImports : start_Imported(imported)

SpecFollow == Init /\ [][NextFollow]_vars

\* an awaited RestAPI.get settles, resolved or rejected, and an awaited
\* importLoggedMessages() resolves; the host then runs the continuation
StartFetchSettles ==
    \/ start_FetchFailed
    \/ \E body \in FollowBodies :
           /\ startTask.pc = "fetch"
           /\ PayloadUserId(body) = Head(startTask.ids)
           /\ start_Fetched(body)

StartImportSettles == \E imported \in StartImports : start_Imported(imported)

FairSpecFollow ==
    SpecFollow /\ WF_vars(StartFetchSettles) /\ WF_vars(StartImportSettles)

(***************************************************************************)
(* SpecMenu: the user-context menu patched any number of times and its     *)
(* item picked, over whitelists typed into the form.                       *)
(***************************************************************************)
MenuTexts == {EmptyString, UserA, UserA \o <<",">> \o UserA}

HostChildren == {<<>>, <<MenuChild(<<"user-profile">>, <<"Profile">>)>>}

NextMenu ==
    \/ \E text \in MenuTexts : EditWhitelistedIds(text)
    \/ \E user \in {UserA, CurrentUser, Undefined}, children \in HostChildren :
           OpenContextMenu(user, children)
    \/ contextMenuPatch
    \/ InvokeFollowerItem
    \/ \E id \in UserIds : followUser_FetchFailed(id)
    \/ \E id \in UserIds, body \in FollowBodies :
           PayloadUserId(body) = id /\ followUser_Fetched(id, body)

SpecMenu == Init /\ [][NextMenu]_vars

(***************************************************************************)
(* SpecNormalize: convertSnakeCaseToCamelCase on nested structures.        *)
(***************************************************************************)
MaxEntries == 2      \* most entries in one object

\* the sequences of at most n entries over keys and values, no key twice
RECURSIVE EntryLists(_, _, _)
EntryLists(keys, values, n) ==
    IF n = 0 THEN {<<>>}
    ELSE LET shorter == EntryLists(keys, values, n - 1)
         IN  shorter \cup
             {entries \in {Append(e, <<k, v>>) : e \in shorter, k \in keys, v \in values} :
                 \A i, j \in 1..Len(entries) : entries[i][1] = entries[j][1] => i = j}

One == <<"1">>       \* the number 1

NormalizerScalars == {Scalar(One), Scalar(NameX)}

InnerValues ==
    NormalizerScalars
    \cup {Array(<<Scalar(One)>>), Object(<<>>), Object(<< <<K_accent_color, Scalar(One)>> >>)}

NormalizerInputs ==
    InnerValues
    \cup {Array(<<v>>) : v \in InnerValues}
    \cup {Object(e) : e \in EntryLists({K_global_name, K_globalName, K_nested_obj},
                                       InnerValues, MaxEntries)}

NextNormalize == \E obj \in NormalizerInputs : CallConvertSnakeCaseToCamelCase(obj)

SpecNormalize == Init /\ [][NextNormalize]_vars

(***************************************************************************)
(* Claims about the whitelist store (checked under SpecWhitelist).         *)
(***************************************************************************)
\* an id that survives the comma list: not empty, no comma, no space at either end
WellFormedId(id) ==
    /\ id # EmptyString
    /\ trim(id) = id
    /\ \A i \in 1..Len(id) : id[i] # ","

\* C1 as stated: after addToWhitelist(id) returns, isInWhitelist(id) is true, for
\* every id string and every persisted string.
C1_AddThenContains_AnyId ==
    lastCall.op = "addToWhitelist" => isInWhitelist(store.whitelistedIds, lastCall.id)

\* C1 amended: after addToWhitelist(id) returns, isInWhitelist(id) is true for every
\* persisted string and every id that is not empty, holds no comma and has no
\* whitespace at either end (newly added or already present).
C1_AddThenContains ==
    (lastCall.op = "addToWhitelist" /\ WellFormedId(lastCall.id))
        => isInWhitelist(store.whitelistedIds, lastCall.id)

\* an id absent from a non-empty, untidy persisted list was added and is now present
C1_Witness ==
    /\ lastCall.op = "addToWhitelist"
    /\ WellFormedId(lastCall.id)
    /\ parseWhitelist(lastCall.before) # <<>>
    /\ lastCall.before # join(parseWhitelist(lastCall.before), ",")
    /\ ~isInWhitelist(lastCall.before, lastCall.id)
    /\ isInWhitelist(store.whitelistedIds, lastCall.id)

\* C2: after removeFromWhitelist(id) returns, isInWhitelist(id) is false, for every
\* id and every persisted string, any comma list typed into the form included.
C2_RemoveThenAbsent ==
    lastCall.op = "removeFromWhitelist"
        => ~isInWhitelist(store.whitelistedIds, lastCall.id)

NoDuplicates(items) ==
    \A i, j \in 1..Len(items) : items[i] = items[j] => i = j

\* C3: after any sequence of addToWhitelist and removeFromWhitelist calls, from any
\* persisted string, the parsed whitelist holds no id twice (stated here for calls
\* with a well-formed id, where the claim already fails).
C3_NoDuplicates ==
    (lastCall.op \in {"addToWhitelist", "removeFromWhitelist"} /\ WellFormedId(lastCall.id))
        => NoDuplicates(parseWhitelist(store.whitelistedIds))

(***************************************************************************)
(* Claims about the notification gate and the handlers.                    *)
(***************************************************************************)
GateUsers == UserIds \cup {Undefined}
GateChannels == {ChannelC, ChannelD, Undefined}

\* C4 as stated, its last part: for a whitelisted user and an absent (undefined)
\* channelId shouldNotify is true in every host state, also when no channel is focused.
C4_AbsentChannelAlwaysNotifies ==
    \A u \in UserIds :
        isInWhitelist(store.whitelistedIds, u) => shouldNotify(u, Undefined)

\* C4 amended: shouldNotify(userId, channelId) is true iff userId is in the whitelist
\* and channelId differs from the focused channel's id; while no channel is focused
\* that id is undefined, so an absent channelId passes the gate exactly while some
\* channel is focused.
C4_ShouldNotify ==
    \A u \in GateUsers, c \in GateChannels :
        shouldNotify(u, c) <=>
            /\ isInWhitelist(store.whitelistedIds, u)
            /\ IF currentChannel = Undefined THEN c # Undefined ELSE c # currentChannel

\* a resumed MESSAGE_DELETE resolved a whitelisted, known author's message that has no
\* channel_id while no channel was focused, and the gate let nothing through
C4_Witness ==
    /\ lastCall.op = "MESSAGE_DELETE_Resume"
    /\ ~lastCall.stored.exists
    /\ ~lastCall.imported.isNull
    /\ lastCall.imported.map[MessageM].channel_id = Undefined
    /\ isInWhitelist(store.whitelistedIds, lastCall.imported.map[MessageM].authorId)
    /\ lastCall.imported.map[MessageM].authorId \in userStore
    /\ currentChannel = Undefined
    /\ emitted = <<>>
    /\ ~thrown

\* the user a notification is about: the one whose avatar it carries
NotifiedUser(n) == Tail(n.icon)

\* C5: no handler emits a notification about a user who is not in the whitelist at the
\* moment of emission, under every interleaving with followUser and unfollowUser, the
\* MESSAGE_DELETE import in flight included.
C5_OnlyWhitelistedNotified ==
    \A i \in 1..Len(emitted) :
        isInWhitelist(store.whitelistedIds, NotifiedUser(emitted[i]))

\* a MESSAGE_DELETE resumed after its import and notified about a whitelisted author
C5_Witness ==
    /\ lastCall.op = "MESSAGE_DELETE_Resume"
    /\ Len(emitted) = 1
    /\ isInWhitelist(store.whitelistedIds, NotifiedUser(emitted[1]))

\* C6: while trackSentMessage is false MESSAGE_CREATE emits nothing, while
\* trackStartedTyping is false TYPING_START emits nothing, while trackProfileChanges
\* is false USER_PROFILE_FETCH_SUCCESS emits nothing; whether MESSAGE_UPDATE emits is
\* decided by its payload, the whitelist, the focused channel and the user store alone.
C6_TrackingSettingsSuppress ==
    /\ (lastCall.op = "MESSAGE_CREATE" /\ ~store.trackSentMessage) => emitted = <<>>
    /\ (lastCall.op = "TYPING_START" /\ ~store.trackStartedTyping) => emitted = <<>>
    /\ (lastCall.op = "USER_PROFILE_FETCH_SUCCESS" /\ ~store.trackProfileChanges)
           => emitted = <<>>
    /\ lastCall.op = "MESSAGE_UPDATE" =>
           (emitted # <<>> <=>
               /\ ~Falsy(lastCall.payload.authorId)
               /\ ~Falsy(lastCall.payload.channelId)
               /\ isInWhitelist(store.whitelistedIds, lastCall.payload.authorId)
               /\ lastCall.payload.channelId # currentChannel
               /\ lastCall.payload.authorId \in userStore)

\* a whitelisted, known user typed in an unfocused channel while trackStartedTyping
\* was off, and nothing was emitted
C6_Witness ==
    /\ lastCall.op = "TYPING_START"
    /\ ~store.trackStartedTyping
    /\ ~Falsy(lastCall.payload.channelId)
    /\ isInWhitelist(store.whitelistedIds, lastCall.payload.userId)
    /\ lastCall.payload.channelId # currentChannel
    /\ lastCall.payload.userId \in userStore
    /\ emitted = <<>>

\* C7: a MESSAGE_CREATE with author id and channel id present, trackSentMessage on, the
\* author whitelisted and the channel not focused emits exactly one notification,
\* titled "<username> Joined a server" for type 7 and "<username> Sent a message"
\* otherwise, the latter with the body of the truncation rule.
C7_MessageCreateNotifies ==
    (/\ lastCall.op = "MESSAGE_CREATE"
     /\ ~Falsy(lastCall.payload.authorId)
     /\ ~Falsy(lastCall.payload.channelId)
     /\ store.trackSentMessage
     /\ isInWhitelist(store.whitelistedIds, lastCall.payload.authorId)
     /\ lastCall.payload.channelId # currentChannel)
    => /\ Len(emitted) = 1
       /\ IF lastCall.payload.type = GuildJoinType
          THEN emitted[1].title =
                   <<"@">> \o lastCall.payload.authorId \o <<" Joined a server">>
          ELSE /\ emitted[1].title =
                      <<"@">> \o lastCall.payload.authorId \o <<" Sent a message">>
               /\ emitted[1].body = getMessageBody(store, lastCall.payload.content,
                                                   lastCall.payload.filename)

(***************************************************************************)
(* Claims about the message body (checked under SpecBody).                 *)
(***************************************************************************)
\* the text the body is cut from: content, else the first filename, else the placeholder
BaseText(content, filename) ==
    IF content # Undefined /\ Len(content) > 0 THEN content
    ELSE IF filename # Undefined /\ Len(filename) > 0 THEN filename
    ELSE Placeholder

\* C8: with showMessageBody on, the base text is the content, or the first attachment's
\* filename when the content is empty, or the placeholder when both are missing; if
\* charLimit > 0 and the base text is longer than charLimit the result is its first
\* charLimit characters followed by "...", and if charLimit is 0 the result is the
\* base text.
C8_MessageBody ==
    (lastCall.op = "getMessageBody" /\ store.showMessageBody) =>
        LET base == BaseText(lastCall.content, lastCall.filename)
            limit == store.charLimit
        IN  /\ (limit > 0 /\ Len(base) > limit) =>
                   lastCall.result = [i \in 1..(limit + 3) |->
                                         IF i <= limit THEN base[i] ELSE "."]
            /\ limit = 0 => lastCall.result = base

\* an empty content fell back to a filename longer than the limit, and was clipped
C8_Witness ==
    /\ lastCall.op = "getMessageBody"
    /\ store.showMessageBody
    /\ lastCall.content = EmptyString
    /\ lastCall.filename = <<"f", ".", "p", "n", "g">>
    /\ store.charLimit = 2
    /\ lastCall.result = <<"f", ".", ".", ".", ".">>

(***************************************************************************)
(* Claims about the profile handler (checked under SpecProfile).           *)
(***************************************************************************)
\* the monitored fields, by the names the host's payload uses
MonitoredFields == <<K_username, K_global_name, K_avatar, K_discriminator, K_clan,
                     K_flags, K_banner, K_banner_color, K_accent_color, K_bio>>

\* the handler got past its guards with a cached snapshot at hand
ProfileDiffed ==
    /\ lastCall.op = "USER_PROFILE_FETCH_SUCCESS"
    /\ isInWhitelist(store.whitelistedIds, PayloadUserId(lastCall.payload))
    /\ store.trackProfileChanges
    /\ lastCall.oldUser.t = "object"

\* field differs between the cached snapshot (normalized keys) and the fetched profile
FieldChanged(field) ==
    Get(Get(lastCall.payload, K_user), field)
        # Get(Get(lastCall.oldUser, K_user), camelCaseKey(field))

\* C9: for a whitelisted user with trackProfileChanges on and a cached snapshot, the
\* handler emits a notification iff the value of at least one monitored field differs
\* between the snapshot and the fetched profile, and the body lists exactly the changed
\* fields; an identical profile yields no notification.
C9_NotifiesIffFieldChanged ==
    ProfileDiffed =>
        LET changed == SelectSeq(MonitoredFields, FieldChanged)
        IN  /\ emitted # <<>> <=> changed # <<>>
            /\ emitted # <<>> =>
                   emitted[1].body = <<"Updated properties: ">> \o join(changed, ", ")
                                         \o <<".">>

\* C10: every USER_PROFILE_FETCH_SUCCESS for a whitelisted user with trackProfileChanges
\* on leaves oldUsers[user.id] equal to the normalized payload, whether or not a field
\* changed or a notification was emitted.
C10_SnapshotRefreshed ==
    (/\ lastCall.op = "USER_PROFILE_FETCH_SUCCESS"
     /\ isInWhitelist(store.whitelistedIds, PayloadUserId(lastCall.payload))
     /\ store.trackProfileChanges)
    => oldUsers[PayloadUserId(lastCall.payload)]
           = convertSnakeCaseToCamelCase(lastCall.payload)

(***************************************************************************)
(* Claims about MESSAGE_DELETE (checked under SpecMessages).               *)
(***************************************************************************)
\* the notification the handler owes for a resolved message: one "Deleted a message!"
\* about its author if the gate passes for author and channel, none otherwise
DeleteOutcome(message) ==
    IF /\ isInWhitelist(store.whitelistedIds, message.authorId)
       /\ message.channel_id # currentChannel
    THEN /\ Len(emitted) = 1
         /\ emitted[1].title = <<"@">> \o message.authorId \o <<" Deleted a message!">>
    ELSE emitted = <<>>

\* C11: MESSAGE_DELETE resolves the message from the live store, then from the cached
\* logged-message map; only when both miss does it import, once per event, and looks
\* up once more; a message still unresolved yields no notification, a resolved one
\* whose author and channel pass the gate yields exactly one "Deleted a message"
\* notification.
C11_DeleteResolution ==
    /\ (/\ lastCall.op = "MESSAGE_DELETE"
        /\ ~Falsy(lastCall.payload.id)
        /\ ~Falsy(lastCall.payload.channelId)
        /\ ~Falsy(lastCall.payload.guildId))
       => LET cached == loggedMessages[lastCall.payload.id]
          IN  IF lastCall.stored.exists
              THEN lastCall.imports = 0 /\ DeleteOutcome(lastCall.stored)
              ELSE IF cached.exists
              THEN lastCall.imports = 0 /\ DeleteOutcome(cached)
              ELSE lastCall.imports = 1 /\ emitted = <<>>
    /\ lastCall.op = "MESSAGE_DELETE_Resume"
       => LET imported == IF lastCall.imported.isNull THEN NoMessage
                          ELSE lastCall.imported.map[lastCall.payload.id]
          IN  /\ lastCall.imports = 0
              /\ IF lastCall.stored.exists THEN DeleteOutcome(lastCall.stored)
                 ELSE IF imported.exists THEN DeleteOutcome(imported)
                 ELSE emitted = <<>>

(***************************************************************************)
(* Claims about every handler (checked under SpecHandlers).                *)
(***************************************************************************)
HandlerOps == {"MESSAGE_CREATE", "MESSAGE_UPDATE", "TYPING_START", "THREAD_CREATE",
               "USER_PROFILE_FETCH_SUCCESS", "MESSAGE_DELETE", "MESSAGE_DELETE_Resume"}

\* the user the last handler invocation is about
SubjectOfLastCall ==
    IF lastCall.op \in {"MESSAGE_CREATE", "MESSAGE_UPDATE"} THEN lastCall.payload.authorId
    ELSE IF lastCall.op = "TYPING_START" THEN lastCall.payload.userId
    ELSE IF lastCall.op = "THREAD_CREATE" THEN lastCall.payload.ownerId
    ELSE IF lastCall.op = "USER_PROFILE_FETCH_SUCCESS" THEN PayloadUserId(lastCall.payload)
    ELSE Undefined

\* the last handler invocation got a payload without its user or its channel, or its
\* user is unknown to the host user store
FieldAbsent ==
    \/ Falsy(SubjectOfLastCall)
    \/ SubjectOfLastCall \notin userStore
    \/ /\ lastCall.op \in {"MESSAGE_CREATE", "MESSAGE_UPDATE", "TYPING_START", "THREAD_CREATE"}
       /\ Falsy(lastCall.payload.channelId)

\* C12: a handler whose payload lacks a field, or whose user is unknown to the host
\* user store, returns without emitting a notification and without raising an error;
\* no handler invocation ever ends in a thrown exception.
C12_NoHandlerThrows ==
    lastCall.op \in HandlerOps
        => /\ ~thrown
           /\ FieldAbsent => emitted = <<>>

(***************************************************************************)
(* Claims about start(), followUser and unfollowUser (checked under        *)
(* SpecFollow).                                                            *)
(***************************************************************************)
\* id has no snapshot and is not whitelisted
Unfollowed(id) ==
    oldUsers[id] = UndefinedValue /\ ~isInWhitelist(store.whitelistedIds, id)

\* C13: when unfollowUser(id) returns, oldUsers has no entry for id and id is not
\* whitelisted, and every later step that is not an invocation of followUser(id)
\* keeps it so: a profile event, or the resolution of a followUser(id) or start()
\* fetch that was pending when unfollowUser ran.
C13_SnapshotDeletedOnUnfollow ==
    [][\A id \in UserIds :
          /\ (lastCall'.op = "unfollowUser" /\ lastCall'.id = id /\ ~thrown')
                 => Unfollowed(id)'
          /\ (Unfollowed(id) /\ ~(lastCall'.op = "followUser" /\ lastCall'.id = id))
                 => Unfollowed(id)']_vars

\* C14: a failing profile fetch is caught. In start() the failure for one id raises
\* nothing, drops only that id from the ids still to fetch and leaves store and
\* snapshots alone, and the import runs afterwards, so start() completes; in
\* followUser(id) the failure raises nothing and leaves the whitelist as it was.
C14_FetchFailureCaught ==
    /\ [][lastCall'.op = "start_FetchFailed"
              => /\ ~thrown'
                 /\ startTask.pc = "fetch"
                 /\ startTask'.ids = Tail(startTask.ids)
                 /\ startTask'.pc = (IF startTask'.ids = <<>> THEN "import" ELSE "fetch")
                 /\ UNCHANGED <<store, oldUsers>>]_vars
    /\ [][lastCall'.op = "followUser_FetchFailed"
              => ~thrown' /\ UNCHANGED <<store, oldUsers>>]_vars
    /\ (lastCall.op = "start_FetchFailed") ~> (lastCall.op = "start_Imported")
    /\ (startTask.pc # "idle") ~> (startTask.pc = "idle")

\* in start() the fetch for the first of two whitelisted ids failed, and the second
\* id is the next to be fetched
C14_Witness ==
    /\ lastCall.op = "start_FetchFailed"
    /\ ~thrown
    /\ lastCall.id = UserA
    /\ isInWhitelist(store.whitelistedIds, UserA)
    /\ startTask = [pc |-> "fetch", ids |-> <<UserB>>]

(***************************************************************************)
(* Claims about the context menu (checked under SpecMenu).                 *)
(***************************************************************************)
FollowerItemCount ==
    Cardinality({i \in 1..Len(menu.children) : menu.children[i].id = FollowerItem})

\* C15: however often contextMenuPatch ran on a children list, the list holds at most
\* one item with id "follower-v1", and none in the current user's menu; picking the
\* item toggles membership: a user whitelisted at that moment is not whitelisted
\* afterwards, a user not whitelisted is whitelisted afterwards.
C15_MenuItemToggles ==
    /\ [](FollowerItemCount <= 1 /\ (menu.user = CurrentUser => FollowerItemCount = 0))
    /\ [][InvokeFollowerItem
              => (isInWhitelist(store.whitelistedIds, menu.user)
                      # isInWhitelist(store'.whitelistedIds, menu.user))]_vars

(***************************************************************************)
(* Claims about the payload normalizer (checked under SpecNormalize).      *)
(***************************************************************************)
\* the camelCase form of a key: every "_" that a letter follows is dropped and that
\* letter is put in upper case
CamelForm(key) ==
    LET dropped(i) == key[i] = "_" /\ i < Len(key) /\ IsLetter(key[i + 1])
        kept == SelectSeq([i \in 1..Len(key) |-> i], LAMBDA i : ~dropped(i))
    IN  [n \in 1..Len(kept) |->
            IF kept[n] > 1 /\ dropped(kept[n] - 1)
            THEN toUpperCase(key[kept[n]]) ELSE key[kept[n]]]

\* out has the shape of in: scalars equal, arrays position by position, objects entry
\* by entry with the key in camelCase form
RECURSIVE SameShape(_, _)
SameShape(in, out) ==
    IF in.t = "scalar" THEN out = in
    ELSE IF in.t = "array"
    THEN /\ out.t = "array"
         /\ Len(out.items) = Len(in.items)
         /\ \A i \in 1..Len(in.items) : SameShape(in.items[i], out.items[i])
    ELSE /\ out.t = "object"
         /\ Len(out.entries) = Len(in.entries)
         /\ \A i \in 1..Len(in.entries) :
                /\ out.entries[i][1] = CamelForm(in.entries[i][1])
                /\ SameShape(in.entries[i][2], out.entries[i][2])

\* no object of the structure has two keys with the same camelCase form
RECURSIVE DistinctCamelForms(_)
DistinctCamelForms(in) ==
    IF in.t = "scalar" THEN TRUE
    ELSE IF in.t = "array" THEN \A i \in 1..Len(in.items) : DistinctCamelForms(in.items[i])
    ELSE /\ \A i, j \in 1..Len(in.entries) :
                CamelForm(in.entries[i][1]) = CamelForm(in.entries[j][1]) => i = j
         /\ \A i \in 1..Len(in.entries) : DistinctCamelForms(in.entries[i][2])

\* {global_name: "x", nested_obj: {accent_color: 1}}
SpecExample ==
    Object(<< <<K_global_name, Scalar(NameX)>>,
              <<K_nested_obj, Object(<< <<K_accent_color, Scalar(One)>> >>)>> >>)

\* {globalName: "x", nestedObj: {accentColor: 1}}
SpecExampleResult ==
    Object(<< <<K_globalName, Scalar(NameX)>>,
              <<K_nestedObj, Object(<< <<K_accentColor, Scalar(One)>> >>)>> >>)

\* C16 as stated: for every nested structure the result has the same shape, every
\* key in camelCase form, every scalar and array position unchanged, no entry lost.
C16_SameShape_AnyStructure ==
    lastCall.op = "convertSnakeCaseToCamelCase" => SameShape(lastCall.obj, lastCall.result)

\* C16 amended: for every nested structure of objects, arrays and scalars in which no
\* object has two keys with the same camelCase form, the result has the same shape,
\* every key in camelCase form, every scalar and array position unchanged and no entry
\* lost; {global_name: "x", nested_obj: {accent_color: 1}} becomes
\* {globalName: "x", nestedObj: {accentColor: 1}}.
C16_SameShape ==
    lastCall.op = "convertSnakeCaseToCamelCase"
        => /\ DistinctCamelForms(lastCall.obj) => SameShape(lastCall.obj, lastCall.result)
           /\ lastCall.obj = SpecExample => lastCall.result = SpecExampleResult

\* the example of the spec was converted
C16_Witness ==
    /\ lastCall.op = "convertSnakeCaseToCamelCase"
    /\ lastCall.obj = SpecExample
    /\ lastCall.result = SpecExampleResult

(***************************************************************************)
(* Frame claims about the whitelist store (checked under SpecWhitelist).   *)
(***************************************************************************)
\* C17: addToWhitelist(id) with id already present, and removeFromWhitelist(id) with
\* id absent, leave the persisted whitelistedIds string exactly as it was, untidy or
\* not, and raise no error.
C17_NoOpLeavesString ==
    /\ (lastCall.op = "addToWhitelist" /\ isInWhitelist(lastCall.before, lastCall.id))
           => store.whitelistedIds = lastCall.before /\ ~thrown
    /\ (lastCall.op = "removeFromWhitelist" /\ ~isInWhitelist(lastCall.before, lastCall.id))
           => store.whitelistedIds = lastCall.before /\ ~thrown

\* an id present in an untidy persisted string was added again and the string is as
\* it was
C17_Witness ==
    /\ lastCall.op = "addToWhitelist"
    /\ isInWhitelist(lastCall.before, lastCall.id)
    /\ lastCall.before # join(parseWhitelist(lastCall.before), ",")
    /\ store.whitelistedIds = lastCall.before

\* C20 as stated: addToWhitelist(i) and removeFromWhitelist(i) change the membership
\* of no other id, for every persisted string and all id strings i and j, j # i.
C20_OthersUntouched_AnyId ==
    lastCall.op \in {"addToWhitelist", "removeFromWhitelist"}
        => \A j \in IdStrings \ {lastCall.id} :
               isInWhitelist(store.whitelistedIds, j) = isInWhitelist(lastCall.before, j)

\* C20 amended: for every persisted string, every id i that holds no comma and has no
\* whitespace at either end, and every id j different from i, isInWhitelist(j) has
\* the same value before and after addToWhitelist(i) and removeFromWhitelist(i).
C20_OthersUntouched ==
    (/\ lastCall.op \in {"addToWhitelist", "removeFromWhitelist"}
     /\ trim(lastCall.id) = lastCall.id
     /\ \A k \in 1..Len(lastCall.id) : lastCall.id[k] # ",")
    => \A j \in IdStrings \ {lastCall.id} :
           isInWhitelist(store.whitelistedIds, j) = isInWhitelist(lastCall.before, j)

\* one of two listed ids was removed and the other is still a member
C20_Witness ==
    /\ lastCall.op = "removeFromWhitelist"
    /\ lastCall.id = <<"a">>
    /\ isInWhitelist(lastCall.before, <<"a">>)
    /\ isInWhitelist(lastCall.before, <<"a", "a">>)
    /\ isInWhitelist(store.whitelistedIds, <<"a", "a">>)
    /\ store.whitelistedIds # lastCall.before

(***************************************************************************)
(* Claims about THREAD_CREATE (checked under SpecHandlers) and about what  *)
(* a notification body shows of a message (checked under SpecMessages).    *)
(***************************************************************************)
\* C18: THREAD_CREATE emits a notification iff channel id and owner id are present,
\* the owner is whitelisted and the newly-created flag is set, whatever channel is
\* focused and whatever the tracking settings are; it emits at most one.
C18_ThreadCreateNotifies ==
    lastCall.op = "THREAD_CREATE"
        => /\ Len(emitted) <= 1
           /\ emitted # <<>> <=>
                  /\ ~Falsy(lastCall.payload.channelId)
                  /\ ~Falsy(lastCall.payload.ownerId)
                  /\ isInWhitelist(store.whitelistedIds, lastCall.payload.ownerId)
                  /\ lastCall.payload.isNewlyCreated

\* sub occurs in s
Contains(s, sub) ==
    \E i \in 0..(Len(s) - Len(sub)) : SubSeq(s, i + 1, i + Len(sub)) = sub

\* the content and the first attachment's filename of the message the last handler
\* invocation was about, where present and not empty
TextsOfLastMessage ==
    LET message == LookupMessage(lastCall.stored, loggedMessages, lastCall.payload.id)
        texts == IF lastCall.op \in {"MESSAGE_CREATE", "MESSAGE_UPDATE"}
                 THEN {lastCall.payload.content, lastCall.payload.filename}
                 ELSE IF lastCall.op \in {"MESSAGE_DELETE", "MESSAGE_DELETE_Resume"}
                 THEN {message.content}
                 ELSE {}
    IN  {text \in texts : ~Falsy(text)}

\* C19: while showMessageBody is false no notification of the message handlers
\* (created, updated, deleted) has a body containing the message's content or an
\* attachment filename; with showMessageBody true and charLimit > 0 no such body
\* carries more than charLimit characters of the content.
C19_BodyHidesContent ==
    \A i \in 1..Len(emitted), text \in TextsOfLastMessage :
        /\ ~store.showMessageBody => ~Contains(emitted[i].body, text)
        /\ (store.showMessageBody /\ store.charLimit > 0 /\ Len(text) > store.charLimit)
               => ~Contains(emitted[i].body, substring(text, store.charLimit + 1))

====
